---- MODULE Spec2Model ----
(***************************************************************************)
(* The build pipeline of tcshows (src/build.js): the spreadsheet fetches,  *)
(* the Bandcamp cache (load once, grow in memory, save once), the          *)
(* per-show, per-URL metadata fetch loop with its awaits, and the output   *)
(* document.                                                               *)
(*                                                                         *)
(* Text is modelled as a sequence of tokens: a token is a piece of text    *)
(* the code treats as a unit (a host name, "bandcamp.com", "/album/", a    *)
(* separator, a blank).  A JavaScript null or undefined is the empty       *)
(* sequence <<>> and a present value v is <<v>> wherever a value is        *)
(* optional.                                                               *)
(***************************************************************************)
EXTENDS Integers, Sequences, FiniteSets, TLC

VARIABLES
    pc,            \* position of build() between its awaits and steps
    run,           \* which invocation of `node build.js` this is (1, 2, ..)
    venuesData,    \* the venues rows the spreadsheet serves (the same every run)
    showsData,     \* the shows rows the spreadsheet serves (the same every run)
    inputEntries,  \* per row, the entries its Bandcamp field was written from
    cacheFile,     \* bandcamp-cache.json on disk
    outputFile,    \* shows.json on disk: <<>> or <<document>>
    exitCode,      \* -1 while the process runs, else its exit status
    venues,        \* build's venues lookup object
    bandcampCache, \* build's in-memory cache object
    showsRaw,      \* build's showsRaw
    shows,         \* build's shows (the output accumulator)
    si,            \* index of the show the outer loop is at
    urls,          \* the current show's urls
    ui,            \* index of the url the inner loop is at
    bandcampData,  \* the current show's bandcampData
    targetUrl,     \* fetchBandcampData's targetUrl
    hops,          \* redirects followed by the fetchUrl call in progress
    inflight,      \* HTTP page requests issued and not yet answered
    log,           \* history: what each run did, in order
    outputOf,      \* history: outputOf[r] is the document run r wrote, if any
    csvText,       \* the text parseCSV is called with
    csvRows,       \* <<>> before the call, <<rows>> after: what parseCSV returned
    markup,        \* the page markup an extractor is called with
    extracted      \* <<>> before the call, <<result>> after: what the extractor returned

\* what the spreadsheet serves
inputs == <<venuesData, showsData, inputEntries>>

\* the arguments and results of the pure functions checked on their own
fnVars == <<csvText, csvRows, markup, extracted>>

\* the state of build()
buildVars == <<pc, run, inputs, cacheFile, outputFile, exitCode, venues, bandcampCache,
               showsRaw, shows, si, urls, ui, bandcampData, targetUrl, hops, inflight,
               log, outputOf>>

vars == <<buildVars, fnVars>>

(***************************************************************************)
(* Bounds of the model.                                                    *)
(***************************************************************************)
MaxShows == 2       \* shows rows served by the spreadsheet
MaxEntries == 2     \* entries written in all Bandcamp fields together
MaxRedirects == 1   \* redirects one fetchUrl call follows
MaxRuns == 2        \* successive invocations of the build
MaxDate == 2        \* distinct dates the rows carry
MaxSheetRows == 3   \* shows rows of a sheet without Bandcamp fields
MaxVenueRows == 2   \* venues rows of such a sheet
MaxCsvLen == 5      \* characters of a text given to parseCSV
MaxTokens == 4      \* tokens of a page given to an extractor on its own

(***************************************************************************)
(* Text helpers.                                                           *)
(***************************************************************************)
Blank == " "
Comma == ","
LineFeed == "\n"

\* s.includes(tok) for the substrings the code looks for
Includes(s, tok) == \E i \in 1..Len(s) : s[i] = tok

\* one token of String.prototype.toLowerCase
LowerToken(t) == IF t = "A" THEN "a" ELSE t

\* String.prototype.toLowerCase
ToLowerCase(s) == [i \in 1..Len(s) |-> LowerToken(s[i])]

RECURSIVE TrimLeft(_)
TrimLeft(s) == IF s # <<>> /\ Head(s) = Blank THEN TrimLeft(Tail(s)) ELSE s

RECURSIVE TrimRight(_)
TrimRight(s) ==
    IF s # <<>> /\ s[Len(s)] = Blank THEN TrimRight(SubSeq(s, 1, Len(s) - 1)) ELSE s

\* String.prototype.trim
Trim(s) == TrimRight(TrimLeft(s))

\* the characters of the separator class [,\n]
IsSeparator(t) == t \in {Comma, LineFeed}

\* s.split(/[,\n]+/): a run of separators is one cut; a separator at either
\* end of the text leaves an empty piece there
RECURSIVE SplitFrom(_, _, _, _)
SplitFrom(s, i, piece, pieces) ==
    IF i > Len(s) THEN Append(pieces, piece)
    ELSE IF IsSeparator(s[i])
         THEN IF i > 1 /\ IsSeparator(s[i - 1])
              THEN SplitFrom(s, i + 1, piece, pieces)
              ELSE SplitFrom(s, i + 1, <<>>, Append(pieces, piece))
         ELSE SplitFrom(s, i + 1, Append(piece, s[i]), pieces)

Split(s) == SplitFrom(s, 1, <<>>, <<>>)

RECURSIVE SelectSeqOf(_, _)
\* Array.prototype.filter with the url filter of build
SelectSeqOf(ss, i) ==
    IF i > Len(ss) THEN <<>>
    ELSE IF ss[i] # <<>> /\ Includes(ss[i], "bandcamp.com")
         THEN <<ss[i]>> \o SelectSeqOf(ss, i + 1)
         ELSE SelectSeqOf(ss, i + 1)

\* show.bandcampUrl.split(/[,\n]+/).map(u => u.trim()).filter(...)
SplitUrls(field) ==
    LET pieces == Split(field)
        trimmed == [i \in 1..Len(pieces) |-> Trim(pieces[i])]
    IN SelectSeqOf(trimmed, 1)

(***************************************************************************)
(* The URLs and pages of the model's web.                                  *)
(***************************************************************************)
AlbumUrl == <<"https://", "a", ".", "bandcamp.com", "/album/", "x">>
AlbumUrlUpper == <<"https://", "A", ".", "bandcamp.com", "/album/", "x">>
ArtistUrl == <<"https://", "b", ".", "bandcamp.com", "/">>
ReleaseUrl == <<"https://", "b", ".", "bandcamp.com", "/album/", "y">>
OtherUrl == <<"https://", "example.com", "/", "x">>
RedirectLocation == <<"https://", "bandcamp.com", "/moved">>

\* the entries a Bandcamp field is written from
Entries ==
    {AlbumUrl, <<Blank>> \o AlbumUrlUpper \o <<Blank>>, ArtistUrl, ReleaseUrl, OtherUrl, <<>>}

\* page markup, as the tokens the extractors look for
ReleasePage == <<"title=r", "album=1">>
PlainPage == <<"text">>
ArtistPage == <<"href=/album/y", "href=/track/z">>
WebPages == {ReleasePage, PlainPage, ArtistPage}

(***************************************************************************)
(* MetadataExtractor: the pure functions of the page markup.               *)
(***************************************************************************)
\* the first index of html whose token is in toks, 0 if none (String.match)
FirstMatch(html, toks) ==
    IF \E i \in 1..Len(html) : html[i] \in toks
    THEN CHOOSE i \in 1..Len(html) :
            html[i] \in toks /\ \A j \in 1..(i - 1) : html[j] \notin toks
    ELSE 0

AlbumIdTokens == {"album=1", "album:1", "album=3"}
TrackIdTokens == {"track=2", "track:2"}

\* the digits captured by /album[=:](\d+)/ or /track[=:](\d+)/
CapturedId(tok) ==
    IF tok = "album=3" THEN "3" ELSE IF tok \in AlbumIdTokens THEN "1" ELSE "2"

\* the identifier of whichever pattern matches first in the markup
extractEarliestEmbedInfo(html) ==
    LET i == FirstMatch(html, AlbumIdTokens \cup TrackIdTokens)
    IN IF i = 0 THEN <<>>
       ELSE <<[type |-> IF html[i] \in AlbumIdTokens THEN "album" ELSE "track",
               id |-> CapturedId(html[i])]>>

extractEmbedInfo(html) ==
    LET a == FirstMatch(html, AlbumIdTokens)
        t == FirstMatch(html, TrackIdTokens)
    IN IF a # 0 THEN <<[type |-> "album", id |-> CapturedId(html[a])]>>
       ELSE IF t # 0 THEN <<[type |-> "track", id |-> CapturedId(html[t])]>>
       ELSE <<>>

buildEmbedHtml(embedInfo) ==
    <<"<iframe src=https://bandcamp.com/EmbeddedPlayer/", embedInfo.type, "=",
      embedInfo.id, "/size=small/bgcol=0a0a0a/linkcol=888888/transparent=true>">>

\* the markup of tags: the container block and its end, anchors with and
\* without the class tag, and the data-tralbum attribute
TagsOpen == "<div class=tralbum-tags>"
DivClose == "</div>"
AnchorPunk == "<a class=tag>punk</a>"
AnchorNoisePadded == "<a class=tag> noise </a>"
AnchorBlank == "<a class=tag> </a>"
AnchorRockPlain == "<a href=/tag/rock>rock</a>"
BlobFive == "data-tralbum={tags:[punk,noise,lo-fi,weird,Minneapolis]}"
BlobBroken == "data-tralbum={tags:"

TaggedAnchors == {AnchorPunk, AnchorNoisePadded, AnchorBlank}
Anchors == TaggedAnchors \cup {AnchorRockPlain}
BlobTokens == {BlobFive, BlobBroken}

\* link.replace(/<[^>]+>/g, '').trim(): the text of an anchor, '' when blank
AnchorText(tok) ==
    IF tok = AnchorPunk THEN "punk"
    ELSE IF tok = AnchorNoisePadded THEN "noise"
    ELSE IF tok = AnchorRockPlain THEN "rock"
    ELSE ""

\* JSON.parse(decoded).tags, the names in order; text that does not parse
\* throws, and the catch leaves the tags as they were
BlobTagNames(tok) ==
    IF tok = BlobFive THEN <<"punk", "noise", "lo-fi", "weird", "Minneapolis">> ELSE <<>>

\* a push that does not look for the text among the tags
PushAny(allTags, text) == IF text # "" THEN Append(allTags, text) ELSE allTags

\* if (text && !allTags.includes(text)) allTags.push(text)
PushNew(allTags, text) ==
    IF text # "" /\ ~Includes(allTags, text) THEN Append(allTags, text) ELSE allTags

RECURSIVE PushAll(_, _)
\* forEach over the texts, pushing each
PushAll(allTags, texts) ==
    IF texts = <<>> THEN allTags
    ELSE PushAll(PushNew(allTags, Head(texts)), Tail(texts))

\* the texts of the tokens of html that are in toks, in order
TextsOf(html, toks) ==
    LET found == SelectSeq(html, LAMBDA tok : tok \in toks)
    IN [i \in 1..Len(found) |-> AnchorText(found[i])]

\* tagMatch[1]: what stands between the first tralbum-tags container and
\* the first </div> after it; <<>> when there is no such block
ContainerBlock(html) ==
    LET open == FirstMatch(html, {TagsOpen})
    IN IF open = 0 THEN <<>>
       ELSE LET rest == SubSeq(html, open + 1, Len(html))
                close == FirstMatch(rest, {DivClose})
            IN IF close = 0 THEN <<>> ELSE SubSeq(rest, 1, close - 1)

\* the names of the first data-tralbum attribute
BlobNames(html) ==
    LET i == FirstMatch(html, BlobTokens)
    IN IF i = 0 THEN <<>> ELSE BlobTagNames(html[i])

\* allTags.slice(0, -1).slice(0, 4)
GenresOf(allTags) ==
    IF allTags = <<>> THEN <<>>
    ELSE LET butLast == SubSeq(allTags, 1, Len(allTags) - 1)
         IN IF Len(butLast) > 4 THEN SubSeq(butLast, 1, 4) ELSE butLast

extractGenresAndLocation(html) ==
    LET fromContainer == PushAll(<<>>, TextsOf(ContainerBlock(html), Anchors))
        fromBlob == PushAll(fromContainer, BlobNames(html))
        allTags == PushAll(fromBlob, TextsOf(html, TaggedAnchors))
    IN [genres |-> GenresOf(allTags),
        location |-> IF allTags # <<>> THEN <<allTags[Len(allTags)]>> ELSE <<>>]

TitleTokens == {"title=r"}

extractAlbumTitle(html) ==
    LET i == FirstMatch(html, TitleTokens) IN IF i # 0 THEN <<"r">> ELSE <<>>

AlbumLinkTokens == {"href=/album/y"}
TrackLinkTokens == {"href=/track/z"}

\* the path captured by /href="(\/album\/[^"]+)"/ or /href="(\/track\/[^"]+)"/
CapturedPath(tok) ==
    IF tok \in AlbumLinkTokens THEN <<"/album/", "y">> ELSE <<"/track/", "z">>

\* baseUrl.replace(/\/$/, '')
StripTrailingSlash(url) ==
    IF url # <<>> /\ url[Len(url)] = "/" THEN SubSeq(url, 1, Len(url) - 1) ELSE url

extractLatestRelease(html, baseUrl) ==
    LET a == FirstMatch(html, AlbumLinkTokens)
        t == FirstMatch(html, TrackLinkTokens)
    IN IF a # 0 THEN <<StripTrailingSlash(baseUrl) \o CapturedPath(html[a])>>
       ELSE IF t # 0 THEN <<StripTrailingSlash(baseUrl) \o CapturedPath(html[t])>>
       ELSE <<>>

\* the record fetchBandcampData returns for the page it extracts from; the
\* fields kept are those whose presence differs between the two returns
MetadataOf(pageHtml) ==
    LET tags == extractGenresAndLocation(pageHtml)
        embedInfo == extractEmbedInfo(pageHtml)
        albumTitle == extractAlbumTitle(pageHtml)
    IN IF embedInfo = <<>>
       THEN [genres |-> tags.genres, location |-> tags.location, embedHtml |-> <<>>,
             trackTitle |-> <<>>, albumTitle |-> albumTitle]
       ELSE [genres |-> tags.genres, location |-> tags.location,
             embedHtml |-> <<buildEmbedHtml(embedInfo[1])>>,
             trackTitle |-> albumTitle, albumTitle |-> albumTitle]

\* a test that takes every url for an artist page
IsAnyPage(bandcampUrl) == TRUE

\* !bandcampUrl.includes('/album/') && !bandcampUrl.includes('/track/')
IsArtistPage(bandcampUrl) ==
    ~Includes(bandcampUrl, "/album/") /\ ~Includes(bandcampUrl, "/track/")

(***************************************************************************)
(* CsvParser: parseCSV.  A text is the sequence of its characters, a field *)
(* the sequence of the characters it holds, a row the sequence of its      *)
(* fields.                                                                 *)
(***************************************************************************)
Quote == "\""
CarriageReturn == "\r"

\* a scan in which no quote is ever taken as doubled
NeverEscaped(inQuotes, next) == FALSE

\* inQuotes && next === '"': the quote is the first of a doubled quote
IsEscapedQuote(inQuotes, next) == inQuotes /\ next = <<Quote>>

\* a comma ending the field inside quotes too
EndsFieldAnywhere(char, inQuotes) == char = Comma

\* char === ',' && !inQuotes
EndsField(char, inQuotes) == char = Comma /\ ~inQuotes

\* char === '\n' && !inQuotes
EndsRow(char, inQuotes) == char = LineFeed /\ ~inQuotes

\* a carriage return discarded outside quotes only
DiscardedOutsideQuotes(char, inQuotes) == char = CarriageReturn /\ ~inQuotes

\* char === '\r'
IsDiscarded(char, inQuotes) == char = CarriageReturn

RECURSIVE ScanCsv(_, _, _, _, _, _)
\* the for loop of parseCSV from index i on; next is csv[i + 1], undefined
\* (<<>>) past the end
ScanCsv(csv, i, rows, current, field, inQuotes) ==
    IF i > Len(csv) THEN [rows |-> rows, current |-> current, field |-> field]
    ELSE LET char == csv[i]
             next == IF i + 1 <= Len(csv) THEN <<csv[i + 1]>> ELSE <<>>
         IN IF char = Quote
            THEN IF IsEscapedQuote(inQuotes, next)
                 THEN ScanCsv(csv, i + 2, rows, current, Append(field, Quote), inQuotes)
                 ELSE ScanCsv(csv, i + 1, rows, current, field, ~inQuotes)
            ELSE IF EndsField(char, inQuotes)
            THEN ScanCsv(csv, i + 1, rows, Append(current, field), <<>>, inQuotes)
            ELSE IF EndsRow(char, inQuotes)
            THEN ScanCsv(csv, i + 1, Append(rows, Append(current, field)), <<>>, <<>>,
                         inQuotes)
            ELSE IF IsDiscarded(char, inQuotes)
            THEN ScanCsv(csv, i + 1, rows, current, field, inQuotes)
            ELSE ScanCsv(csv, i + 1, rows, current, Append(field, char), inQuotes)

\* a final row pushed whatever is pending
FlushAlways(st) == Append(st.rows, Append(st.current, st.field))

\* if (field || current.length) { current.push(field); rows.push(current) }
Flush(st) ==
    IF st.field # <<>> \/ st.current # <<>>
    THEN Append(st.rows, Append(st.current, st.field))
    ELSE st.rows

parseCSV(csv) == Flush(ScanCsv(csv, 1, <<>>, <<>>, <<>>, FALSE))

(***************************************************************************)
(* PageCache: the cache object and its file.  A cache object is            *)
(* [kind, map]: kind "object" is a JSON object whose properties are map;   *)
(* the kinds "null", "scalar" and "array" are the other values JSON.parse  *)
(* can return.  A cache file is the same, or is "missing" or "corrupt"     *)
(* (text JSON.parse rejects).                                              *)
(***************************************************************************)
NoProperties == [k \in {} |-> <<>>]
EmptyObject == [kind |-> "object", map |-> NoProperties]

loadBandcampCache(file) ==
    IF file.kind \in {"missing", "corrupt"} THEN EmptyObject ELSE file

\* a save that writes an empty object whatever the cache holds
saveNothing(cache) == EmptyObject

\* JSON.stringify(cache): only an object's own properties are written; the
\* properties set on an array are not among its elements
saveBandcampCache(cache) ==
    IF cache.kind = "array" THEN [kind |-> "array", map |-> NoProperties] ELSE cache

\* bandcampCache[cacheKey], where the read does not throw
CacheGet(cache, cacheKey) ==
    IF cache.kind \in {"object", "array"} /\ cacheKey \in DOMAIN cache.map
    THEN <<cache.map[cacheKey]>>
    ELSE <<>>

\* a store that is left out
CachePutNothing(cache, cacheKey, data) == cache

\* a store that leaves the new entry alone in the cache
CachePutAlone(cache, cacheKey, data) ==
    [cache EXCEPT !.map = [k \in {cacheKey} |-> data]]

\* bandcampCache[cacheKey] = data: a no-op on a number, string or boolean
CachePut(cache, cacheKey, data) ==
    IF cache.kind \in {"object", "array"}
    THEN [cache EXCEPT !.map =
            [k \in DOMAIN cache.map \cup {cacheKey} |->
                IF k = cacheKey THEN data ELSE cache.map[k]]]
    ELSE cache

(***************************************************************************)
(* ShowAggregator: the date sort.                                          *)
(***************************************************************************)
\* the text of a date cell that new Date() does not parse: an Invalid Date,
\* whose time value is NaN
NotADate == 0

\* the comparator (a, b) => new Date(a.date) - new Date(b.date), as sort
\* takes it: a NaN result counts as +0
CompareDates(a, b) ==
    IF a.date[1] = NotADate \/ b.date[1] = NotADate THEN 0 ELSE a.date[1] - b.date[1]

Reverse(s) == [i \in 1..Len(s) |-> s[Len(s) + 1 - i]]

RECURSIVE RunLength(_, _, _)
\* the length of the run the array starts with: the elements from idx on
\* are taken while they keep going down (strictly) or keep not going down
RunLength(a, descending, idx) ==
    IF idx > Len(a) THEN Len(a)
    ELSE LET order == CompareDates(a[idx], a[idx - 1])
         IN IF (descending /\ order >= 0) \/ (~descending /\ order < 0)
            THEN idx - 1
            ELSE RunLength(a, descending, idx + 1)

RECURSIVE SearchPos(_, _, _, _)
\* the place of pivot among a[left..right-1], found by halving: after every
\* element it does not compare less than
SearchPos(a, pivot, left, right) ==
    IF left >= right THEN left
    ELSE LET mid == left + ((right - left) \div 2)
         IN IF CompareDates(pivot, a[mid]) < 0
            THEN SearchPos(a, pivot, left, mid)
            ELSE SearchPos(a, pivot, mid + 1, right)

RECURSIVE BinaryInsertionSort(_, _)
\* the elements from start on are inserted, one by one, into the sorted front
BinaryInsertionSort(a, start) ==
    IF start > Len(a) THEN a
    ELSE LET pivot == a[start]
             pos == SearchPos(a, pivot, 1, start)
         IN BinaryInsertionSort(
                SubSeq(a, 1, pos - 1) \o <<pivot>> \o SubSeq(a, pos, start - 1)
                    \o SubSeq(a, start + 1, Len(a)),
                start + 1)

\* shows.sort((a, b) => new Date(a.date) - new Date(b.date)), as the engine
\* sorts a short array: the run at its start is found (and reversed when it
\* descends), the rest is inserted by binary search.  A stable sort when the
\* comparator is an order, which it is when every date parses.
SortByDate(ss) ==
    IF Len(ss) < 2 THEN ss
    ELSE LET descending == CompareDates(ss[2], ss[1]) < 0
             n == RunLength(ss, descending, 3)
             front == IF descending
                      THEN Reverse(SubSeq(ss, 1, n)) \o SubSeq(ss, n + 1, Len(ss))
                      ELSE ss
         IN BinaryInsertionSort(front, n + 1)

(***************************************************************************)
(* ShowAggregator: the venues lookup.  A cell is its text, the empty cell  *)
(* (or one the row is too short to have) the empty sequence.               *)
(***************************************************************************)
\* the names every object has a property for without being given one: those
\* of Object.prototype
InheritedNames == {<<"constructor">>}

\* the venue object build makes of a venues row; the cells after the name
\* are all treated as the address is (cell || '')
VenueOf(row) == [name |-> row.name, address |-> row.address]

RECURSIVE VenuesFrom(_, _)
\* venuesData.forEach(row => { if (name) venues[name] = {...} }), from lookup
VenuesFrom(data, lookup) ==
    IF data = <<>> THEN lookup
    ELSE LET row == Head(data)
         IN VenuesFrom(Tail(data),
                IF row.name # <<>>
                THEN [k \in DOMAIN lookup \cup {row.name} |->
                        IF k = row.name THEN VenueOf(row) ELSE lookup[k]]
                ELSE lookup)

\* venues[venueName]: the property of that name, the object's own or the
\* one it inherits (a function), or undefined
VenueGet(lookup, venueName) ==
    IF venueName \in DOMAIN lookup THEN <<lookup[venueName]>>
    ELSE IF venueName \in InheritedNames THEN <<[inherited |-> venueName]>>
    ELSE <<>>

\* venues[venueName] || { name: venueName }
ResolveVenue(lookup, venueName) ==
    LET found == VenueGet(lookup, venueName)
    IN IF found # <<>> THEN found[1] ELSE [name |-> venueName]

\* the show build makes of a shows row
MapRow(row, lookup) ==
    [row |-> row.row, date |-> row.date, venue |-> ResolveVenue(lookup, row.venueName),
     title |-> row.title, bandcampUrl |-> row.bandcampUrl]

\* a show as JSON.stringify writes it: a property whose value is a function
\* is left out (<<>>)
StringifyShow(show) ==
    [row |-> show.row, date |-> show.date, title |-> show.title,
     bandcamp |-> show.bandcamp,
     venue |-> IF "inherited" \in DOMAIN show.venue THEN <<>> ELSE <<show.venue>>]

(***************************************************************************)
(* History.                                                                *)
(***************************************************************************)
\* the spreadsheet row of the show the loop is at, 0 outside the loop
CurrentRow == IF si \in 1..Len(showsRaw) THEN showsRaw[si].row ELSE 0

\* one entry of the log: what happened, at which url of which show, for
\* which url text, with which record (<<>> when none) and, when a page
\* arrived in the step, which page (<<>> when none)
Event(ev, url, rec) ==
    [run |-> run, ev |-> ev, row |-> CurrentRow, ui |-> ui, url |-> url, rec |-> rec,
     page |-> <<>>]

Logged(ev, url, rec) == Append(log, Event(ev, url, rec))

\* the last element of a sequence
Last(s) == s[Len(s)]

LoggedPage(ev, url, rec, pageHtml) ==
    Append(log, [Event(ev, url, rec) EXCEPT !.page = <<pageHtml>>])

(***************************************************************************)
(* Initial states.                                                         *)
(***************************************************************************)
Separators == {<<Comma>>, <<LineFeed>>}

\* how a sequence of entries is written into one field
RECURSIVE Join(_, _)
Join(entries, sep) ==
    IF entries = <<>> THEN <<>>
    ELSE IF Len(entries) = 1 THEN entries[1]
    ELSE entries[1] \o sep \o Join(Tail(entries), sep)

SeqsUpTo(S, n) == UNION {[1..k -> S] : k \in 0..n}

RECURSIVE TotalLen(_)
TotalLen(ss) == IF ss = <<>> THEN 0 ELSE Len(Head(ss)) + TotalLen(Tail(ss))

Dates == 1..MaxDate

\* the date and title cells of a row: a row is complete, or lacks its title
RowHeads ==
    {[date |-> <<d>>, title |-> <<"t">>] : d \in Dates}
    \cup {[date |-> <<1>>, title |-> <<>>]}

\* a record an earlier run left in the cache
StaleRecord == MetadataOf(<<"track:2">>)

CacheKeys == {ToLowerCase(AlbumUrl), ArtistUrl}

\* the cache files a run can find: none, a damaged one, or one written by
\* an earlier run
CacheFiles ==
    {[kind |-> "missing", map |-> NoProperties], [kind |-> "corrupt", map |-> NoProperties]}
    \cup {[kind |-> "object", map |-> [k \in K |-> StaleRecord]] :
            K \in (SUBSET CacheKeys) \ {{}}}

\* valid JSON that is not an object
ForeignCacheFiles ==
    {[kind |-> k, map |-> NoProperties] : k \in {"null", "scalar", "array"}}

\* the venues sheet of the runs that are about the Bandcamp loop: the one
\* venue their rows name
TheVenue == [name |-> <<"v">>, address |-> <<"1 Main St">>]

\* build() has been called and has taken no step
BuildStart ==
    /\ pc = "start"
    /\ run = 1
    /\ outputFile = <<>>
    /\ exitCode = -1
    /\ venues = NoProperties
    /\ bandcampCache = EmptyObject
    /\ showsRaw = <<>>
    /\ shows = <<>>
    /\ si = 0
    /\ urls = <<>>
    /\ ui = 0
    /\ bandcampData = <<>>
    /\ targetUrl = <<>>
    /\ hops = 0
    /\ inflight = {}
    /\ log = <<>>
    /\ outputOf = [r \in 1..MaxRuns |-> <<>>]

\* no pure function is being checked on its own
NoCalls ==
    /\ csvText = <<>>
    /\ csvRows = <<>>
    /\ markup = <<>>
    /\ extracted = <<>>

InitWith(files) ==
    /\ \E es \in SeqsUpTo(SeqsUpTo(Entries, MaxEntries), MaxShows) :
         /\ TotalLen(es) <= MaxEntries
         /\ inputEntries = es
         /\ \E hs \in [1..Len(es) -> RowHeads], sep \in Separators :
              showsData = [i \in 1..Len(es) |->
                             [row |-> i, date |-> hs[i].date, venueName |-> <<"v">>,
                              title |-> hs[i].title, bandcampUrl |-> Join(es[i], sep)]]
    /\ venuesData = <<TheVenue>>
    /\ cacheFile \in files
    /\ BuildStart
    /\ NoCalls

Init == InitWith(CacheFiles)

(***************************************************************************)
(* build(): the spreadsheet fetches.                                       *)
(***************************************************************************)
\* the catch of build: log the message and process.exit(1)
BuildFailed(ev) ==
    /\ pc' = "failed"
    /\ exitCode' = 1
    /\ inflight' = {}
    /\ log' = Logged(ev, <<>>, <<>>)
    /\ UNCHANGED <<run, inputs, venues, fnVars, cacheFile, outputFile, bandcampCache,
                   showsRaw, shows, si, urls, ui, bandcampData, targetUrl, hops, outputOf>>

\* await fetchCSV(SHEET_ID, VENUES_GID) resolves
FetchVenuesOk ==
    /\ pc = "start"
    /\ pc' = "venues"
    /\ venues' = VenuesFrom(venuesData, NoProperties)
    /\ UNCHANGED <<run, inputs, fnVars, cacheFile, outputFile, exitCode,
                   bandcampCache, showsRaw, shows, si, urls, ui, bandcampData,
                   targetUrl, hops, inflight, log, outputOf>>

\* await fetchCSV(SHEET_ID, VENUES_GID) rejects (status not 200, or a network error)
FetchVenuesFail ==
    /\ pc = "start"
    /\ BuildFailed("venuesFailed")

\* await fetchCSV(SHEET_ID, SHOWS_GID) resolves
FetchShowsOk ==
    /\ pc = "venues"
    /\ pc' = "shows"
    /\ UNCHANGED <<run, inputs, venues, fnVars, cacheFile, outputFile, exitCode,
                   bandcampCache, showsRaw, shows, si, urls, ui, bandcampData,
                   targetUrl, hops, inflight, log, outputOf>>

\* the rejection taken for an empty sheet: the build goes on
FetchShowsFailIgnored ==
    /\ pc = "venues"
    /\ pc' = "shows"
    /\ log' = Logged("showsFailed", <<>>, <<>>)
    /\ UNCHANGED <<run, inputs, venues, fnVars, cacheFile, outputFile, exitCode,
                   bandcampCache, showsRaw, shows, si, urls, ui, bandcampData,
                   targetUrl, hops, inflight, outputOf>>

\* await fetchCSV(SHEET_ID, SHOWS_GID) rejects
FetchShowsFail ==
    /\ pc = "venues"
    /\ BuildFailed("showsFailed")

\* .filter(row => row[0] && row[1] && row[2])
HasRequired(r) == r.date # <<>> /\ r.venueName # <<>> /\ r.title # <<>>

RECURSIVE FilterRows(_)
\* showsData.filter(...).map(...): the rows with date, venue and title, in order
FilterRows(data) ==
    IF data = <<>> THEN <<>>
    ELSE (IF HasRequired(Head(data)) THEN <<Head(data)>> ELSE <<>>)
         \o FilterRows(Tail(data))

\* const bandcampCache = loadBandcampCache(); const showsRaw = ...; const shows = []
LoadCache ==
    /\ pc = "shows"
    /\ bandcampCache' = loadBandcampCache(cacheFile)
    /\ showsRaw' = LET kept == FilterRows(showsData)
                   IN [i \in 1..Len(kept) |-> MapRow(kept[i], venues)]
    /\ shows' = <<>>
    /\ si' = 1
    /\ pc' = "loop"
    /\ log' = Logged("read", <<>>, <<>>)
    /\ UNCHANGED <<run, inputs, venues, fnVars, cacheFile, outputFile, exitCode,
                   urls, ui, bandcampData, targetUrl, hops, inflight, outputOf>>

(***************************************************************************)
(* build(): the loop over the shows and their urls.                        *)
(***************************************************************************)
\* the show pushed to shows: bandcampUrl deleted, bandcamp set when there is
\* data (an absent bandcamp property is the empty sequence)
OutputShow(show, data) ==
    [row |-> show.row, date |-> show.date, venue |-> show.venue, title |-> show.title,
     bandcamp |-> data]

\* for (const show of showsRaw): a show with a Bandcamp field enters the url
\* loop, a show without one is pushed as it is
NextShow ==
    /\ pc = "loop"
    /\ si <= Len(showsRaw)
    /\ IF showsRaw[si].bandcampUrl # <<>>
       THEN /\ urls' = SplitUrls(showsRaw[si].bandcampUrl)
            /\ bandcampData' = <<>>
            /\ ui' = 1
            /\ pc' = "urls"
            /\ UNCHANGED <<shows, si>>
       ELSE /\ shows' = Append(shows, OutputShow(showsRaw[si], <<>>))
            /\ si' = si + 1
            /\ UNCHANGED <<urls, ui, bandcampData, pc>>
    /\ UNCHANGED <<run, inputs, venues, fnVars, cacheFile, outputFile, exitCode,
                   bandcampCache, showsRaw, targetUrl, hops, inflight, log, outputOf>>

\* FinishShow with the cache saved after every show
FinishShowSaving ==
    /\ pc = "urls"
    /\ ui > Len(urls)
    /\ shows' = Append(shows, OutputShow(showsRaw[si], bandcampData))
    /\ si' = si + 1
    /\ pc' = "loop"
    /\ cacheFile' = saveBandcampCache(bandcampCache)
    /\ log' = Logged("write", <<>>, <<>>)
    /\ UNCHANGED <<run, inputs, venues, fnVars, outputFile, exitCode,
                   bandcampCache, showsRaw, urls, ui, bandcampData, targetUrl, hops,
                   inflight, outputOf>>

\* FinishShow pushing the show only when it has data
FinishShowWithData ==
    /\ pc = "urls"
    /\ ui > Len(urls)
    /\ shows' = IF bandcampData # <<>>
                THEN Append(shows, OutputShow(showsRaw[si], bandcampData))
                ELSE shows
    /\ si' = si + 1
    /\ pc' = "loop"
    /\ UNCHANGED <<run, inputs, venues, fnVars, cacheFile, outputFile, exitCode,
                   bandcampCache, showsRaw, urls, ui, bandcampData, targetUrl, hops,
                   inflight, log, outputOf>>

\* the end of the url loop: if (bandcampData.length > 0) show.bandcamp = ...;
\* delete show.bandcampUrl; shows.push(show)
FinishShow ==
    /\ pc = "urls"
    /\ ui > Len(urls)
    /\ shows' = Append(shows, OutputShow(showsRaw[si], bandcampData))
    /\ si' = si + 1
    /\ pc' = "loop"
    /\ UNCHANGED <<run, inputs, venues, fnVars, cacheFile, outputFile, exitCode,
                   bandcampCache, showsRaw, urls, ui, bandcampData, targetUrl, hops,
                   inflight, log, outputOf>>

\* Push putting the element first
Unshift(array, element) == <<element>> \o array

\* Array.prototype.push
Push(array, element) == Append(array, element)

\* the cache key without the lower-casing
CacheKeyAsWritten(url) == url

\* const cacheKey = url.toLowerCase()
CacheKeyOf(url) == ToLowerCase(url)

\* if (bandcampCache[cacheKey]): bandcampData.push(bandcampCache[cacheKey])
CacheHit ==
    /\ pc = "urls"
    /\ ui <= Len(urls)
    /\ bandcampCache.kind # "null"
    /\ LET hit == CacheGet(bandcampCache, CacheKeyOf(urls[ui]))
       IN /\ hit # <<>>
          /\ bandcampData' = Push(bandcampData, hit[1])
          /\ log' = Logged("hit", urls[ui], hit)
    /\ ui' = ui + 1
    /\ UNCHANGED <<pc, run, inputs, venues, fnVars, cacheFile, outputFile, exitCode,
                   bandcampCache, showsRaw, shows, si, urls, targetUrl, hops, inflight,
                   outputOf>>

\* CacheMiss without the await: the request is issued and the loop goes on
CacheMissNotAwaited ==
    /\ pc = "urls"
    /\ ui <= Len(urls)
    /\ bandcampCache.kind # "null"
    /\ CacheGet(bandcampCache, CacheKeyOf(urls[ui])) = <<>>
    /\ inflight' = inflight \cup {urls[ui]}
    /\ ui' = ui + 1
    /\ log' = Logged("fetch", urls[ui], <<>>)
    /\ UNCHANGED <<pc, run, inputs, venues, fnVars, cacheFile, outputFile, exitCode,
                   bandcampCache, showsRaw, shows, si, urls, bandcampData, targetUrl,
                   hops, outputOf>>

\* else: await fetchBandcampData(url), up to its first await: the url passes
\* the guard (it went through the filter), targetUrl = bandcampUrl, and
\* fetchUrl(bandcampUrl) issues the request
CacheMiss ==
    /\ pc = "urls"
    /\ ui <= Len(urls)
    /\ bandcampCache.kind # "null"
    /\ CacheGet(bandcampCache, CacheKeyOf(urls[ui])) = <<>>
    /\ targetUrl' = urls[ui]
    /\ hops' = 0
    /\ inflight' = inflight \cup {urls[ui]}
    /\ pc' = "page"
    /\ log' = Logged("fetch", urls[ui], <<>>)
    /\ UNCHANGED <<run, inputs, venues, fnVars, cacheFile, outputFile, exitCode,
                   bandcampCache, showsRaw, shows, si, urls, ui, bandcampData, outputOf>>

\* bandcampCache[cacheKey] on a cache that is null: a TypeError, which the
\* catch of build turns into the failed build
CacheLookupThrows ==
    /\ pc = "urls"
    /\ ui <= Len(urls)
    /\ bandcampCache.kind = "null"
    /\ BuildFailed("lookupThrew")

(***************************************************************************)
(* fetchBandcampData and fetchUrl: the answers to the request in flight.   *)
(***************************************************************************)
\* the request the fetchUrl call in progress waits for
Awaited == IF hops = 0 THEN targetUrl ELSE RedirectLocation

\* the key of the page the record was extracted from
ResolvedKey == CacheKeyOf(targetUrl)

\* the key build stores a fetched record under: cacheKey, of the url it asked for
StoreKey == CacheKeyOf(urls[ui])

\* build after fetchBandcampData returned data (<<>> is null), its locals gone:
\* if (data) { bandcampData.push(data); bandcampCache[cacheKey] = data }
\* arrived is the page the data was extracted from, <<>> when none arrived
Returned(data, arrived) ==
    /\ IF data # <<>>
       THEN /\ bandcampData' = Push(bandcampData, data[1])
            /\ bandcampCache' = CachePut(bandcampCache, StoreKey, data[1])
            /\ log' = Append(log, [Event("record", urls[ui], data) EXCEPT !.page = arrived])
       ELSE /\ log' = Append(log, [Event("norecord", urls[ui], <<>>) EXCEPT !.page = arrived])
            /\ UNCHANGED <<bandcampData, bandcampCache>>
    /\ targetUrl' = <<>>
    /\ hops' = 0
    /\ ui' = ui + 1
    /\ pc' = "urls"

\* FetchFailed without the try and catch of fetchBandcampData: the rejection
\* reaches the catch of build
FetchFailedUncaught ==
    /\ pc \in {"page", "release"}
    /\ Awaited \in inflight
    /\ BuildFailed("mediaFailed")

\* FetchFailed with a retry: the catch issues the request again
FetchFailedRetried ==
    /\ pc \in {"page", "release"}
    /\ Awaited \in inflight
    /\ inflight' = (inflight \ {Awaited}) \cup {urls[ui]}
    /\ targetUrl' = urls[ui]
    /\ hops' = 0
    /\ pc' = "page"
    /\ log' = Logged("fetch", urls[ui], <<>>)
    /\ UNCHANGED <<run, inputs, venues, fnVars, cacheFile, outputFile, exitCode,
                   bandcampCache, showsRaw, shows, si, urls, ui, bandcampData, outputOf>>

\* the request fails (or the redirect location is no URL): fetchUrl rejects,
\* the catch of fetchBandcampData returns null
FetchFailed ==
    /\ pc \in {"page", "release"}
    /\ Awaited \in inflight
    /\ inflight' = inflight \ {Awaited}
    /\ Returned(<<>>, <<>>)
    /\ UNCHANGED <<run, inputs, venues, fnVars, cacheFile, outputFile, exitCode,
                   showsRaw, shows, si, urls, outputOf>>

\* a 3xx answer with a location: fetchUrl calls itself on the location
FetchRedirected ==
    /\ pc \in {"page", "release"}
    /\ Awaited \in inflight
    /\ hops < MaxRedirects
    /\ hops' = hops + 1
    /\ inflight' = (inflight \ {Awaited}) \cup {RedirectLocation}
    /\ UNCHANGED <<pc, run, inputs, venues, fnVars, cacheFile, outputFile, exitCode,
                   bandcampCache, showsRaw, shows, si, urls, ui, bandcampData,
                   targetUrl, log, outputOf>>

\* the page of an artist url arrives and names a release: targetUrl becomes
\* the release and fetchUrl(targetUrl) issues the second request
ReleaseRequested ==
    /\ pc = "page"
    /\ Awaited \in inflight
    /\ IsArtistPage(urls[ui])
    /\ \E pageHtml \in WebPages :
         LET latestRelease == extractLatestRelease(pageHtml, urls[ui])
         IN /\ latestRelease # <<>>
            /\ targetUrl' = latestRelease[1]
            /\ inflight' = (inflight \ {Awaited}) \cup {latestRelease[1]}
            /\ log' = LoggedPage("refetch", latestRelease[1], <<>>, pageHtml)
    /\ hops' = 0
    /\ pc' = "release"
    /\ UNCHANGED <<run, inputs, venues, fnVars, cacheFile, outputFile, exitCode,
                   bandcampCache, showsRaw, shows, si, urls, ui, bandcampData, outputOf>>

\* PageExtracted returning null for a page without an embed identifier
PageExtractedOnlyWithEmbed ==
    /\ pc \in {"page", "release"}
    /\ Awaited \in inflight
    /\ \E pageHtml \in WebPages :
         /\ pc = "page" /\ IsArtistPage(urls[ui])
               => extractLatestRelease(pageHtml, urls[ui]) = <<>>
         /\ Returned(IF extractEmbedInfo(pageHtml) = <<>> THEN <<>>
                     ELSE <<MetadataOf(pageHtml)>>, <<pageHtml>>)
    /\ inflight' = inflight \ {Awaited}
    /\ UNCHANGED <<run, inputs, venues, fnVars, cacheFile, outputFile, exitCode,
                   showsRaw, shows, si, urls, outputOf>>

\* the page to extract from arrives: the first page of an album or track
\* url or of an artist url naming no release, or the release page
PageExtracted ==
    /\ pc \in {"page", "release"}
    /\ Awaited \in inflight
    /\ \E pageHtml \in WebPages :
         /\ pc = "page" /\ IsArtistPage(urls[ui])
               => extractLatestRelease(pageHtml, urls[ui]) = <<>>
         /\ Returned(<<MetadataOf(pageHtml)>>, <<pageHtml>>)
    /\ inflight' = inflight \ {Awaited}
    /\ UNCHANGED <<run, inputs, venues, fnVars, cacheFile, outputFile, exitCode,
                   showsRaw, shows, si, urls, outputOf>>

(***************************************************************************)
(* build(): saving the cache and writing the document.                     *)
(***************************************************************************)
\* saveBandcampCache(bandcampCache), after the loop over the shows
SaveCache ==
    /\ pc = "loop"
    /\ si > Len(showsRaw)
    /\ cacheFile' = saveBandcampCache(bandcampCache)
    /\ pc' = "saved"
    /\ log' = Logged("write", <<>>, <<>>)
    /\ UNCHANGED <<run, inputs, venues, fnVars, outputFile, exitCode, bandcampCache,
                   showsRaw, shows, si, urls, ui, bandcampData, targetUrl, hops,
                   inflight, outputOf>>

\* shows.sort(...); fs.writeFileSync('shows.json', ...); build returns and
\* the process ends with status 0
WriteOutput ==
    /\ pc = "saved"
    /\ shows' = SortByDate(shows)
    /\ outputFile' = <<[venues |-> venues,
                        shows |-> [i \in 1..Len(shows') |-> StringifyShow(shows'[i])]]>>
    /\ outputOf' = [outputOf EXCEPT ![run] = outputFile']
    /\ exitCode' = 0
    /\ pc' = "done"
    /\ log' = Logged("output", <<>>, <<>>)
    /\ UNCHANGED <<run, inputs, venues, fnVars, cacheFile, bandcampCache, showsRaw,
                   si, urls, ui, bandcampData, targetUrl, hops, inflight>>

\* the build is run again: a new process, the files as the last one left them
NextRun ==
    /\ pc \in {"done", "failed"}
    /\ run < MaxRuns
    /\ run' = run + 1
    /\ pc' = "start"
    /\ exitCode' = -1
    /\ bandcampCache' = EmptyObject
    /\ showsRaw' = <<>>
    /\ shows' = <<>>
    /\ si' = 0
    /\ urls' = <<>>
    /\ ui' = 0
    /\ bandcampData' = <<>>
    /\ targetUrl' = <<>>
    /\ hops' = 0
    /\ inflight' = {}
    /\ venues' = NoProperties
    /\ UNCHANGED <<inputs, fnVars, cacheFile, outputFile, log, outputOf>>

Next ==
    \/ FetchVenuesOk
    \/ FetchVenuesFail
    \/ FetchShowsOk
    \/ FetchShowsFail
    \/ LoadCache
    \/ NextShow
    \/ FinishShow
    \/ CacheHit
    \/ CacheMiss
    \/ FetchFailed
    \/ FetchRedirected
    \/ ReleaseRequested
    \/ PageExtracted
    \/ SaveCache
    \/ WriteOutput
    \/ NextRun

Spec == Init /\ [][Next]_vars

\* the same build over any valid JSON in the cache file
InitForeign == InitWith(CacheFiles \cup ForeignCacheFiles)

NextForeign == Next \/ CacheLookupThrows

SpecForeign == InitForeign /\ [][NextForeign]_vars

(***************************************************************************)
(* The build over sheets whose rows have no Bandcamp field (all that       *)
(* src/script.js builds from): more rows, rows lacking any of the required *)
(* cells, dates that do not parse, venues matched, unmatched and named as  *)
(* an inherited property.                                                  *)
(***************************************************************************)
\* the venues rows: two rows of one name, and a row without a name
VenueRows ==
    {[name |-> <<"v">>, address |-> <<"1 Main St">>],
     [name |-> <<"v">>, address |-> <<"2 Side St">>],
     [name |-> <<>>, address |-> <<"1 Main St">>]}

VenueNames == {<<"v">>, <<"w">>} \cup InheritedNames

\* the date, venue and title cells of a shows row: all three present, or
\* one of them empty
SheetRows ==
    {[date |-> <<d>>, venueName |-> v, title |-> <<"t">>] :
        d \in {NotADate} \cup Dates, v \in VenueNames}
    \cup {[date |-> <<>>, venueName |-> <<"v">>, title |-> <<"t">>],
          [date |-> <<1>>, venueName |-> <<>>, title |-> <<"t">>],
          [date |-> <<1>>, venueName |-> <<"v">>, title |-> <<>>]}

InitSheet ==
    /\ venuesData \in SeqsUpTo(VenueRows, MaxVenueRows)
    /\ \E cells \in SeqsUpTo(SheetRows, MaxSheetRows) :
         /\ showsData = [i \in 1..Len(cells) |->
                           [row |-> i, date |-> cells[i].date,
                            venueName |-> cells[i].venueName, title |-> cells[i].title,
                            bandcampUrl |-> <<>>]]
         /\ inputEntries = [i \in 1..Len(cells) |-> <<>>]
    /\ cacheFile = [kind |-> "missing", map |-> NoProperties]
    /\ BuildStart
    /\ NoCalls

NextSheet ==
    \/ FetchVenuesOk
    \/ FetchVenuesFail
    \/ FetchShowsOk
    \/ FetchShowsFail
    \/ LoadCache
    \/ NextShow
    \/ SaveCache
    \/ WriteOutput

SpecSheet == InitSheet /\ [][NextSheet]_vars

(***************************************************************************)
(* parseCSV on its own: called once with a text.                           *)
(***************************************************************************)
CsvChars == {"a", Comma, LineFeed, CarriageReturn, Quote}

\* the text "a,b<LF>c""d" with its quotes, and the field it holds
CsvExample == <<Quote, "a", Comma, "b", LineFeed, "c", Quote, Quote, "d", Quote>>
CsvExampleField == <<"a", Comma, "b", LineFeed, "c", Quote, "d">>

CsvTexts == SeqsUpTo(CsvChars, MaxCsvLen) \cup {CsvExample}

\* build() has not been called: nothing is served, no file exists
NoBuild ==
    /\ venuesData = <<>>
    /\ showsData = <<>>
    /\ inputEntries = <<>>
    /\ cacheFile = [kind |-> "missing", map |-> NoProperties]
    /\ BuildStart

InitCsv ==
    /\ csvText \in CsvTexts
    /\ csvRows = <<>>
    /\ markup = <<>>
    /\ extracted = <<>>
    /\ NoBuild

\* const rows = parseCSV(data)
ParseCsv ==
    /\ csvRows = <<>>
    /\ csvRows' = <<parseCSV(csvText)>>
    /\ UNCHANGED <<buildVars, csvText, markup, extracted>>

NextCsv == ParseCsv

SpecCsv == InitCsv /\ [][NextCsv]_vars

(***************************************************************************)
(* The extractors on their own: each called once with a page.              *)
(***************************************************************************)
\* pages of identifiers, and pages of tags
EmbedPages == SeqsUpTo({"album=1", "album=3", "track=2", "text"}, MaxTokens)
TagPages ==
    SeqsUpTo({TagsOpen, DivClose, AnchorPunk, AnchorNoisePadded, AnchorBlank,
              AnchorRockPlain, BlobFive, BlobBroken}, MaxTokens)

InitExtract ==
    /\ markup \in EmbedPages \cup TagPages
    /\ extracted = <<>>
    /\ csvText = <<>>
    /\ csvRows = <<>>
    /\ NoBuild

\* const embedInfo = extractEmbedInfo(pageHtml)
ExtractEmbedInfo ==
    /\ extracted = <<>>
    /\ extracted' = <<[by |-> "extractEmbedInfo", value |-> extractEmbedInfo(markup)]>>
    /\ UNCHANGED <<buildVars, csvText, csvRows, markup>>

\* const { genres, location } = extractGenresAndLocation(pageHtml)
ExtractGenresAndLocation ==
    /\ extracted = <<>>
    /\ extracted' = <<[by |-> "extractGenresAndLocation",
                       value |-> extractGenresAndLocation(markup)]>>
    /\ UNCHANGED <<buildVars, csvText, csvRows, markup>>

NextExtract ==
    \/ ExtractEmbedInfo
    \/ ExtractGenresAndLocation

SpecExtract == InitExtract /\ [][NextExtract]_vars

(***************************************************************************)
(* Reading the history.                                                    *)
(***************************************************************************)
\* the step appended an entry to the log
Appended == Len(log') = Len(log) + 1

\* the ways build disposes of one url: a cache hit, a record fetched, or none
Outcomes == {"hit", "record", "norecord"}

\* the log entries of run r
EventsOf(r) == {i \in 1..Len(log) : log[i].run = r}

\* log entries i and j are about the same url, taken by its lower-cased form
SameKey(i, j) == ToLowerCase(log[i].url) = ToLowerCase(log[j].url)

\* the rows of the sheet that have a date, a venue and a title
CompleteRows ==
    {i \in 1..Len(showsData) :
        showsData[i].date # <<>> /\ showsData[i].venueName # <<>> /\ showsData[i].title # <<>>}

\* the valid urls of a field, from the entries it was written from: each
\* entry trimmed, kept when it is not empty and names the Bandcamp host
RECURSIVE ValidUrlsOf(_)
ValidUrlsOf(entries) ==
    IF entries = <<>> THEN <<>>
    ELSE LET u == Trim(Head(entries))
         IN (IF u # <<>> /\ Includes(u, "bandcamp.com") THEN <<u>> ELSE <<>>)
            \o ValidUrlsOf(Tail(entries))

\* the outcomes logged by run r for show row, oldest first, from entry i on
RECURSIVE OutcomesFrom(_, _, _)
OutcomesFrom(r, row, i) ==
    IF i > Len(log) THEN <<>>
    ELSE (IF log[i].run = r /\ log[i].row = row /\ log[i].ev \in Outcomes
          THEN <<log[i]>> ELSE <<>>) \o OutcomesFrom(r, row, i + 1)

\* the records of a sequence of outcomes, those without a record left out
RECURSIVE RecordsOf(_)
RecordsOf(evs) ==
    IF evs = <<>> THEN <<>> ELSE Head(evs).rec \o RecordsOf(Tail(evs))

\* the first run ended with its document and the second is under way
FirstRunCompleted == run = 2 /\ outputOf[1] # <<>>

Reads(r) == {i \in EventsOf(r) : log[i].ev = "read"}
Writes(r) == {i \in EventsOf(r) : log[i].ev = "write"}
UrlEvents(r) == {i \in EventsOf(r) : log[i].ev \in Outcomes \cup {"fetch", "refetch"}}
SheetFailed(r) == \E i \in EventsOf(r) : log[i].ev \in {"venuesFailed", "showsFailed"}

\* run r read the cache file at most once, before its first url, and wrote
\* it at most once, after its last
CacheIoInOrder(r) ==
    /\ Cardinality(Reads(r)) <= 1
    /\ Cardinality(Writes(r)) <= 1
    /\ \A u \in UrlEvents(r) :
          /\ \E i \in Reads(r) : i < u
          /\ \A w \in Writes(r) : u < w

(***************************************************************************)
(* C1 (amended).  A second run over the same rows, from the cache the      *)
(* first run left: every reference to a url for which the first run        *)
(* yielded a record is a cache hit with that same record, and no fetch is  *)
(* made for such a url.                                                    *)
(***************************************************************************)
C1_SecondRunReusesRecords ==
    FirstRunCompleted =>
        \A j \in 1..Len(log) :
            \A i \in 1..(j - 1) :
                (/\ log[i].run = 1
                 /\ log[j].run = 2
                 /\ log[i].ev \in {"hit", "record"}
                 /\ log[j].ev \in Outcomes \cup {"fetch"}
                 /\ SameKey(i, j))
                => log[j].ev = "hit" /\ log[j].rec = log[i].rec

\* C1 as stated: the second run makes no request at all and yields for
\* every url what the first run yielded for it.
C1_SecondRunFetchesNothing ==
    FirstRunCompleted =>
        \A j \in EventsOf(2) :
            /\ log[j].ev \notin {"fetch", "refetch"}
            /\ log[j].ev \in Outcomes =>
                  \E i \in EventsOf(1) :
                      /\ log[i].ev \in Outcomes
                      /\ log[i].row = log[j].row
                      /\ log[i].ui = log[j].ui
                      /\ log[i].rec = log[j].rec

\* C1, reached: both runs ended with a document; the first fetched a
\* record, the second served the same url from the cache and made no request
C1_Witness ==
    /\ FirstRunCompleted
    /\ pc = "done"
    /\ \E i \in EventsOf(1), j \in EventsOf(2) :
          /\ log[i].ev = "record"
          /\ log[j].ev = "hit"
          /\ log[i].url = log[j].url
    /\ \A j \in EventsOf(2) : log[j].ev \notin {"fetch", "refetch"}

(***************************************************************************)
(* C2.  A url whose lower-cased form is a key of the cache when build      *)
(* comes to it has the cached record pushed to the show's bandcampData,    *)
(* and the step issues no request: nothing is in flight afterwards and     *)
(* the log gains the hit alone.                                            *)
(***************************************************************************)
C2_HitReusesCachedRecord ==
    [][(/\ pc = "urls"
        /\ ui <= Len(urls)
        /\ ToLowerCase(urls[ui]) \in DOMAIN bandcampCache.map)
       => (/\ bandcampData' =
                Append(bandcampData, bandcampCache.map[ToLowerCase(urls[ui])])
           /\ inflight' = {}
           /\ pc' = "urls"
           /\ ui' = ui + 1
           /\ Appended
           /\ Last(log').ev = "hit")]_vars

\* C2, reached: a url written in upper case was served from the cache
C2_Witness ==
    \E i \in 1..Len(log) :
        /\ log[i].ev = "hit"
        /\ log[i].url = AlbumUrlUpper
        /\ log[i].rec = <<StaleRecord>>

\* a step that takes a failed fetch leaves bandcampData, the cache and the
\* shows as they were and moves to the next url; no step taken while a page
\* is awaited ends the build
C3_FailureStep ==
    /\ pc \in {"page", "release"} => pc' \in {"page", "release", "urls"} /\ exitCode' = -1
    /\ (Appended /\ Last(log').ev = "norecord")
          => /\ bandcampData' = bandcampData
             /\ bandcampCache' = bandcampCache
             /\ shows' = shows
             /\ pc' = "urls"
             /\ ui' = ui + 1

\* a run that is done has disposed of every valid url of every complete row
\* and has written the document with one show per complete row
C3_DoneRunCoveredAll ==
    pc = "done" =>
        /\ outputFile = outputOf[run]
        /\ outputFile # <<>>
        /\ Len(outputFile[1].shows) = Cardinality(CompleteRows)
        /\ \A row \in CompleteRows :
              LET outs == OutcomesFrom(run, row, 1)
              IN [i \in 1..Len(outs) |-> outs[i].url] = ValidUrlsOf(inputEntries[row])

(***************************************************************************)
(* C3.  A failed fetch yields no record for its url and does not stop the  *)
(* run: the failure is taken as "no record" and the loop moves on, no      *)
(* step taken while a page is awaited ends the build, and the run that     *)
(* ends has disposed of every url of every show and written the document.  *)
(***************************************************************************)
C3_FailureDoesNotStopRun == []C3_DoneRunCoveredAll /\ [][C3_FailureStep]_vars

\* C3, reached: a run ended with its document after a url failed and a
\* later url was fetched
C3_Witness ==
    /\ pc = "done"
    /\ \E i, j \in EventsOf(run) :
          /\ i < j
          /\ log[i].ev = "norecord"
          /\ log[j].ev = "record"
          /\ log[j].url # log[i].url

(***************************************************************************)
(* C4.  In every document written, the bandcamp sequence of each show is   *)
(* made of the records its urls yielded, in the order of the urls in the   *)
(* field: the urls build disposed of for the row are the valid urls of     *)
(* its entries in input order, and the sequence holds the record of each   *)
(* url that yielded one and nothing for a url that yielded none.           *)
(***************************************************************************)
C4_MediaInInputOrder ==
    \A r \in 1..MaxRuns :
        outputOf[r] # <<>> =>
            \A k \in 1..Len(outputOf[r][1].shows) :
                LET show == outputOf[r][1].shows[k]
                    outs == OutcomesFrom(r, show.row, 1)
                IN /\ [i \in 1..Len(outs) |-> outs[i].url]
                        = ValidUrlsOf(inputEntries[show.row])
                   /\ show.bandcamp = RecordsOf(outs)

\* C4, reached: a show of two urls; the first run got a record for the
\* second alone, the next run got a different record for the first and put
\* it in front
C4_Witness ==
    /\ outputOf[1] # <<>>
    /\ outputOf[2] # <<>>
    /\ \E k \in 1..Len(outputOf[1][1].shows) :
          LET first == outputOf[1][1].shows[k]
              second == outputOf[2][1].shows[k]
          IN /\ first.row = second.row
             /\ Len(ValidUrlsOf(inputEntries[first.row])) = 2
             /\ Len(first.bandcamp) = 1
             /\ Len(second.bandcamp) = 2
             /\ second.bandcamp[2] = first.bandcamp[1]
             /\ second.bandcamp[1] # second.bandcamp[2]

(***************************************************************************)
(* C5.  A miss that produces a record stores it under the lower-cased url  *)
(* that was asked for and under no other key: the cache after the step is  *)
(* the cache before it with that one key set to the record, also when the  *)
(* record was extracted from the release an artist page resolved to.       *)
(***************************************************************************)
C5_StoredUnderRequestedUrl ==
    [][(Appended /\ Last(log').ev = "record")
       => LET key == ToLowerCase(urls[ui])
              rec == Last(log').rec[1]
          IN /\ DOMAIN bandcampCache'.map = DOMAIN bandcampCache.map \cup {key}
             /\ bandcampCache'.map[key] = rec
             /\ \A k \in DOMAIN bandcampCache.map \ {key} :
                   bandcampCache'.map[k] = bandcampCache.map[k]]_vars

\* C5, reached: the record of an artist url, extracted from the release it
\* resolved to, is in the cache under the artist url and the release url is
\* no key
C5_Witness ==
    /\ \E i \in 1..(Len(log) - 1) :
          /\ log[i].ev = "refetch"
          /\ log[i].url = ReleaseUrl
          /\ log[i + 1].ev = "record"
          /\ log[i + 1].url = ArtistUrl
          /\ log[i + 1].run = run
    /\ pc = "urls"
    /\ ArtistUrl \in DOMAIN bandcampCache.map
    /\ ReleaseUrl \notin DOMAIN bandcampCache.map

(***************************************************************************)
(* C6 (amended).  Within one run a url, taken by its lower-cased form,     *)
(* has a record produced for it at most once: once a reference to it has   *)
(* a record (fetched or found in the cache), no later reference is         *)
(* fetched and each is a cache hit with that same record.                  *)
(***************************************************************************)
C6_RecordProducedOnce ==
    \A j \in 1..Len(log) :
        \A i \in 1..(j - 1) :
            (/\ log[i].run = log[j].run
             /\ log[i].ev \in {"hit", "record"}
             /\ log[j].ev \in Outcomes \cup {"fetch"}
             /\ SameKey(i, j))
            => log[j].ev = "hit" /\ log[j].rec = log[i].rec

\* C6 as stated: within one run each url, taken by its lower-cased form, is
\* fetched at most once and has a record produced at most once, and each
\* later reference reuses the first record.
C6_FetchedAtMostOnce ==
    /\ C6_RecordProducedOnce
    /\ \A j \in 1..Len(log) :
          \A i \in 1..(j - 1) :
              (log[i].run = log[j].run /\ log[i].ev = "fetch" /\ SameKey(i, j))
              => log[j].ev # "fetch"

\* C6, reached: a record fetched for a url was reused for the same url
\* written in another case
C6_Witness ==
    \E i, j \in EventsOf(run) :
        /\ i < j
        /\ log[i].ev = "record"
        /\ log[i].url = AlbumUrl
        /\ log[j].ev = "hit"
        /\ log[j].url = AlbumUrlUpper

(***************************************************************************)
(* C7.  The urls are fetched one at a time: at most one page request is    *)
(* in flight, it is the request fetchUrl waits for, build is suspended on  *)
(* it at the url that caused it, and whenever build is anywhere else (at   *)
(* the next url, the next show, saving, done) nothing is in flight.        *)
(***************************************************************************)
C7_OneFetchAtATime ==
    /\ Cardinality(inflight) <= 1
    /\ inflight # {} =>
          /\ pc \in {"page", "release"}
          /\ inflight = {Awaited}
          /\ \E i \in EventsOf(run) :
                /\ log[i].ev = "fetch"
                /\ log[i].row = CurrentRow
                /\ log[i].ui = ui
                /\ \A j \in EventsOf(run) : j > i => log[j].ev = "refetch"
    /\ pc \in {"page", "release"} => inflight # {}

\* C7, reached: the second url of a show is being fetched after the first
\* one took two requests, the artist page and the release
C7_Witness ==
    /\ pc = "page"
    /\ ui = 2
    /\ Cardinality(inflight) = 1
    /\ \E i \in EventsOf(run) :
          log[i].ev = "refetch" /\ log[i].row = CurrentRow /\ log[i].ui = 1

\* every run so far: the cache file read and written in order; read once
\* and written once when the run ended with its document; neither read nor
\* written when a spreadsheet fetch failed
C8_Runs ==
    \A r \in 1..run :
        /\ CacheIoInOrder(r)
        /\ outputOf[r] # <<>> => Cardinality(Reads(r)) = 1 /\ Cardinality(Writes(r)) = 1
        /\ SheetFailed(r) => Reads(r) = {} /\ Writes(r) = {}

\* the cache file changes only in the step that saves the cache
C8_FileStep == cacheFile' # cacheFile => Appended /\ Last(log').ev = "write"

(***************************************************************************)
(* C8 (amended).  In a run that ends with its document the cache file is   *)
(* read exactly once, before any url is taken up, and written exactly      *)
(* once, after the last url; a run that fails on a spreadsheet fetch       *)
(* neither reads nor writes it; in no run is it read or written twice, or  *)
(* written before the last url, and the file changes in no other step.     *)
(***************************************************************************)
C8_CacheReadAndWrittenOnce == []C8_Runs /\ [][C8_FileStep]_vars

\* C8 as stated: every run of build that has ended has read the cache file
\* exactly once and written it exactly once, in order.
C8_EveryRunReadsAndWrites ==
    \A r \in 1..run :
        (r < run \/ pc \in {"done", "failed"}) =>
            /\ CacheIoInOrder(r)
            /\ Cardinality(Reads(r)) = 1
            /\ Cardinality(Writes(r)) = 1

\* C8, reached: a run ended after reading the file, fetching a record and
\* then writing a file that holds it
C8_Witness ==
    /\ pc = "done"
    /\ \E i, j, k \in EventsOf(run) :
          /\ i < j /\ j < k
          /\ log[i].ev = "read"
          /\ log[j].ev = "record"
          /\ log[k].ev = "write"
          /\ ToLowerCase(log[j].url) \in DOMAIN cacheFile.map

(***************************************************************************)
(* C9 as stated.  Loading the cache never makes the build fail: a run      *)
(* that has read the cache file, whatever it held, does not end in the     *)
(* failed build.                                                           *)
(***************************************************************************)
C9_CacheLoadNeverFails == Reads(run) # {} => pc # "failed"

\* every run so far in which a spreadsheet fetch failed is over with exit
\* status 1 and wrote neither file; the build fails from nothing else
C10_Runs ==
    /\ \A r \in 1..run :
          SheetFailed(r) =>
              /\ r = run => pc = "failed" /\ exitCode = 1
              /\ outputOf[r] = <<>>
              /\ \A i \in EventsOf(r) : log[i].ev \notin {"write", "output"}
    /\ exitCode = 1 => SheetFailed(run)
    /\ pc = "failed" <=> exitCode = 1

\* the build fails only from the two spreadsheet fetches, and the failing
\* step leaves both files as they were
C10_FailStep ==
    /\ pc' = "failed" /\ pc # "failed" =>
          /\ pc \in {"start", "venues"}
          /\ cacheFile' = cacheFile
          /\ outputFile' = outputFile
    /\ outputFile' # outputFile => Appended /\ Last(log').ev = "output"

(***************************************************************************)
(* C10.  A run in which a spreadsheet fetch failed is over with exit       *)
(* status 1 and has written neither the document nor the cache file; the   *)
(* build fails only from the two spreadsheet fetches, never from a step    *)
(* taken at a url, and the failing step leaves both files as they were.    *)
(***************************************************************************)
C10_OnlySheetFailureIsFatal == []C10_Runs /\ [][C10_FailStep]_vars

\* C10, reached: the first run lost a url to a failed fetch and still ended
\* with its document; the second run failed on a spreadsheet fetch
C10_Witness ==
    /\ run = 2
    /\ pc = "failed"
    /\ outputOf[1] # <<>>
    /\ outputFile = outputOf[1]
    /\ \E i \in EventsOf(1) : log[i].ev = "norecord"

\* the shows of the document on disk
WrittenShows == outputFile[1].shows

\* the document holds one show for each complete row of the sheet, with the
\* date and the title of its row
OneShowPerCompleteRow ==
    /\ Len(WrittenShows) = Cardinality(CompleteRows)
    /\ {WrittenShows[k].row : k \in 1..Len(WrittenShows)} = CompleteRows
    /\ \A k \in 1..Len(WrittenShows) :
          /\ WrittenShows[k].date = showsData[WrittenShows[k].row].date
          /\ WrittenShows[k].title = showsData[WrittenShows[k].row].title

\* no complete row names a venue by the name of an inherited property
NoInheritedVenueName ==
    \A i \in CompleteRows : showsData[i].venueName \notin InheritedNames

\* the date of every complete row parses
AllDatesParse == \A i \in CompleteRows : showsData[i].date[1] # NotADate

(***************************************************************************)
(* C11 as stated.  The shows of the document are the rows whose date,      *)
(* venue name and title are all non-empty, one show for each, and every    *)
(* show of the document has a non-empty date, venue name and title.        *)
(***************************************************************************)
C11_ShowIffRequiredFields ==
    outputFile # <<>> =>
        /\ OneShowPerCompleteRow
        /\ \A k \in 1..Len(WrittenShows) :
              /\ WrittenShows[k].date # <<>>
              /\ WrittenShows[k].title # <<>>
              /\ WrittenShows[k].venue # <<>>
              /\ WrittenShows[k].venue[1].name # <<>>

\* C11, the part that holds: a row is in the document if and only if its
\* three cells are non-empty, and every show has a date and a title; it has
\* a venue name too when no row names an inherited property as its venue.
C11_RowKeptIffComplete ==
    outputFile # <<>> =>
        /\ OneShowPerCompleteRow
        /\ \A k \in 1..Len(WrittenShows) :
              /\ WrittenShows[k].date # <<>>
              /\ WrittenShows[k].title # <<>>
              /\ NoInheritedVenueName =>
                    WrittenShows[k].venue # <<>> /\ WrittenShows[k].venue[1].name # <<>>

(***************************************************************************)
(* C12 as stated.  The shows of the document are the built shows, each     *)
(* once, in ascending order of their parsed dates, and two shows of equal  *)
(* date are in the order of their rows.                                    *)
(***************************************************************************)
C12_SortedByDateStable ==
    outputFile # <<>> =>
        /\ OneShowPerCompleteRow
        /\ \A i, j \in 1..Len(WrittenShows) :
              LET a == WrittenShows[i].date[1]
                  b == WrittenShows[j].date[1]
              IN (i < j /\ a # NotADate /\ b # NotADate) =>
                    /\ a <= b
                    /\ a = b => WrittenShows[i].row < WrittenShows[j].row

\* C12, the part that holds: the shows are sorted by date, stably, when the
\* date of every row parses.
C12_SortedWhenDatesParse == AllDatesParse => C12_SortedByDateStable

(***************************************************************************)
(* C13 as stated.  The venue of every show of the document is the venue    *)
(* the lookup holds under the row's venue name when a venues row has that  *)
(* name, and otherwise an object holding that name alone; the build does   *)
(* not fail once both sheets are fetched.                                  *)
(***************************************************************************)
C13_VenueResolvedOrStub ==
    /\ outputFile # <<>> =>
          \A k \in 1..Len(WrittenShows) :
              LET name == showsData[WrittenShows[k].row].venueName
              IN WrittenShows[k].venue =
                    IF \E i \in 1..Len(venuesData) : venuesData[i].name = name
                    THEN <<outputFile[1].venues[name]>>
                    ELSE <<[name |-> name]>>
    /\ pc = "failed" => SheetFailed(run)

\* C13, the part that holds: the venue is resolved as stated when no row
\* names an inherited property as its venue.
C13_ResolvedUnlessInherited == NoInheritedVenueName => C13_VenueResolvedOrStub

\* parseCSV has returned
Parsed == csvRows # <<>>

\* the text holds none of the characters
HasNone(text, chars) == \A i \in 1..Len(text) : text[i] \notin chars

\* the text without its first n and its last m characters
Inner(text, n, m) == SubSeq(text, n + 1, Len(text) - m)

\* the text is a quoted field that is not empty: a quote, characters that
\* are no quote and not carriage returns alone, a quote
IsQuotedField(text) ==
    /\ Len(text) >= 3
    /\ text[1] = Quote
    /\ text[Len(text)] = Quote
    /\ HasNone(Inner(text, 1, 1), {Quote})
    /\ ~HasNone(Inner(text, 1, 1), CsvChars \ {Quote, CarriageReturn})

\* the text is a quoted field with one doubled quote at k inside it
HasDoubledQuoteAt(text, k) ==
    /\ Len(text) >= 4
    /\ text[1] = Quote
    /\ text[Len(text)] = Quote
    /\ k \in 2..(Len(text) - 2)
    /\ text[k] = Quote
    /\ text[k + 1] = Quote
    /\ \A i \in 2..(Len(text) - 1) : i \notin {k, k + 1} => text[i] # Quote

\* String.prototype.replace(/\r/g, '')
StripCR(text) == SelectSeq(text, LAMBDA c : c # CarriageReturn)

(***************************************************************************)
(* C14.  A quoted field keeps the commas and line feeds inside it as its   *)
(* own characters: the text is one row of one field, the characters        *)
(* between the quotes (carriage returns apart); a doubled quote inside the *)
(* quotes is one quote character of the field; the text "a,b<LF>c""d"      *)
(* parses to one row of the one field a,b<LF>c"d.                          *)
(***************************************************************************)
C14_QuotedDelimitersAreLiteral ==
    Parsed =>
        /\ csvText = CsvExample => csvRows[1] = <<<<CsvExampleField>>>>
        /\ IsQuotedField(csvText) =>
              csvRows[1] = <<<<StripCR(Inner(csvText, 1, 1))>>>>
        /\ \A k \in 1..Len(csvText) :
              HasDoubledQuoteAt(csvText, k) =>
                  csvRows[1] = <<<<StripCR(SubSeq(csvText, 2, k)
                                           \o SubSeq(csvText, k + 2, Len(csvText) - 1))>>>>

\* C14, reached: the text of the example was parsed to its one field
C14_Witness ==
    /\ csvText = CsvExample
    /\ csvRows = <<<<<<CsvExampleField>>>>>>

\* the text is pre followed by n quotes, pre being empty or fields of the
\* letter a each ended by a comma: the quotes are all the text of a field
EndsInFieldOfQuotes(text, n) ==
    /\ Len(text) >= n
    /\ \A i \in (Len(text) - n + 1)..Len(text) : text[i] = Quote
    /\ HasNone(Inner(text, 0, n), {Quote, LineFeed, CarriageReturn})
    /\ Len(text) > n => text[Len(text) - n] = Comma

(***************************************************************************)
(* C15 (amended).  A field whose text is two quote characters is an empty  *)
(* field (and a text that is nothing but those two quotes has no row at    *)
(* all); the field of one literal quote character is the one whose text is *)
(* four quote characters, a quoted field holding a doubled quote.          *)
(***************************************************************************)
C15_TwoQuotesAreAnEmptyField ==
    Parsed =>
        /\ EndsInFieldOfQuotes(csvText, 2) =>
              IF Len(csvText) = 2 THEN csvRows[1] = <<>>
              ELSE Len(csvRows[1]) = 1 /\ Last(csvRows[1][1]) = <<>>
        /\ EndsInFieldOfQuotes(csvText, 4) =>
              Len(csvRows[1]) = 1 /\ Last(csvRows[1][1]) = <<Quote>>

\* C15 as stated: a field whose text is two quote characters has the value
\* of one quote character.
C15_TwoQuotesAreOneQuote ==
    (Parsed /\ EndsInFieldOfQuotes(csvText, 2)) =>
        Len(csvRows[1]) = 1 /\ Last(csvRows[1][1]) = <<Quote>>

\* C15, reached: the second field of a,"" was parsed to the empty field
C15_Witness ==
    /\ csvText = <<"a", Comma, Quote, Quote>>
    /\ csvRows = <<<<<<<<"a">>, <<>>>>>>>>

\* the number of line feeds of the text
RECURSIVE LineFeedsOf(_)
LineFeedsOf(text) ==
    IF text = <<>> THEN 0
    ELSE (IF Head(text) = LineFeed THEN 1 ELSE 0) + LineFeedsOf(Tail(text))

\* what follows the last line feed of the text
RECURSIVE LastLine(_)
LastLine(text) ==
    IF text = <<>> \/ text[Len(text)] = LineFeed THEN <<>>
    ELSE Append(LastLine(SubSeq(text, 1, Len(text) - 1)), text[Len(text)])

\* the last line holds a character of a field or a comma
LastLinePending(text) == ~HasNone(LastLine(text), {"a", Comma})

(***************************************************************************)
(* C16 (amended).  At the end of the text a final row is pushed exactly    *)
(* when the field is not empty or the row has a field.  For a text         *)
(* without quotes: there is one row for each line feed and one more        *)
(* exactly when something follows the last line feed, so a text without a  *)
(* trailing line feed has the rows it would have with one, and a text      *)
(* ending in a line feed gets no row after it; an empty line that is       *)
(* itself ended by a line feed is a row of one empty field.                *)
(***************************************************************************)
C16_FinalRowWhenPending ==
    Parsed =>
        LET st == ScanCsv(csvText, 1, <<>>, <<>>, <<>>, FALSE)
            pending == st.field # <<>> \/ st.current # <<>>
        IN /\ csvRows[1] = IF pending THEN Append(st.rows, Append(st.current, st.field))
                           ELSE st.rows
           /\ HasNone(csvText, {Quote}) =>
                 /\ pending = LastLinePending(csvText)
                 /\ Len(csvRows[1]) = LineFeedsOf(csvText) + (IF pending THEN 1 ELSE 0)
                 /\ pending => csvRows[1] = parseCSV(Append(csvText, LineFeed))
                 /\ (Len(csvText) >= 2 /\ Inner(csvText, Len(csvText) - 2, 0)
                                             = <<LineFeed, LineFeed>>)
                       => Last(csvRows[1]) = <<<<>>>>

\* C16 as stated: a text without a trailing line feed has the rows it
\* would have with one, and a text ending in a line feed has the rows of
\* the text before that line feed: the empty line after it adds none.
C16_NoRowForEmptyTrailingLine ==
    (Parsed /\ HasNone(csvText, {Quote, CarriageReturn})) =>
        /\ LastLinePending(csvText) => csvRows[1] = parseCSV(Append(csvText, LineFeed))
        /\ (Len(csvText) >= 2 /\ csvText[Len(csvText)] = LineFeed)
              => csvRows[1] = parseCSV(Inner(csvText, 0, 1))

\* C16, reached: a text of two lines, the second without a line feed,
\* was parsed to two rows
C16_Witness ==
    /\ csvText = <<"a", LineFeed, "a", Comma>>
    /\ csvRows = <<<<<<<<"a">>>>, <<<<"a">>, <<>>>>>>>>

\* a carriage return, or several, stands between two quote characters
QuoteReturnQuote(text) ==
    \E i, j \in 1..Len(text) :
        /\ i + 1 < j
        /\ text[i] = Quote
        /\ text[j] = Quote
        /\ \A k \in (i + 1)..(j - 1) : text[k] = CarriageReturn

\* no field of the rows holds a carriage return
NoReturnIn(rows) ==
    \A r \in 1..Len(rows) : \A f \in 1..Len(rows[r]) :
        HasNone(rows[r][f], {CarriageReturn})

(***************************************************************************)
(* C17 (amended).  No field parseCSV returns holds a carriage return, in   *)
(* or out of quotes, and a text parses to the rows of the text without     *)
(* its carriage returns, provided no carriage return stands between two    *)
(* quote characters.                                                       *)
(***************************************************************************)
C17_ReturnsDiscarded ==
    Parsed =>
        /\ NoReturnIn(csvRows[1])
        /\ ~QuoteReturnQuote(csvText) => csvRows[1] = parseCSV(StripCR(csvText))

\* C17 as stated: no field holds a carriage return, and every text parses
\* to the rows of the text without its carriage returns.
C17_ReturnsNeverMatter ==
    Parsed =>
        /\ NoReturnIn(csvRows[1])
        /\ csvRows[1] = parseCSV(StripCR(csvText))

\* C17, reached: carriage returns inside and after a quoted field were
\* dropped
C17_Witness ==
    /\ csvText = <<Quote, CarriageReturn, "a", Quote, CarriageReturn>>
    /\ csvRows = <<<<<<<<"a">>>>>>>>

\* the extractor has returned
ExtractedBy(fn) == extracted # <<>> /\ extracted[1].by = fn

\* the texts of a sequence, each kept where it first occurs
RECURSIVE Distinct(_)
Distinct(texts) ==
    IF texts = <<>> THEN <<>>
    ELSE LET front == Distinct(SubSeq(texts, 1, Len(texts) - 1))
             last == texts[Len(texts)]
         IN IF \E i \in 1..Len(front) : front[i] = last THEN front ELSE Append(front, last)

\* what the three strategies find in the page, one after the other, blank
\* texts left out
AllFound(html) ==
    SelectSeq(TextsOf(ContainerBlock(html), Anchors) \o BlobNames(html)
                \o TextsOf(html, TaggedAnchors),
              LAMBDA text : text # "")

(***************************************************************************)
(* C18.  The tags of a page are those of the container, then those of the  *)
(* data blob, then those of the standalone tag anchors, each text kept     *)
(* where it first occurs; location is the last of them and genres are the  *)
(* ones before it, the first four at most; with no tag at all location is  *)
(* null and genres is empty.  The five tags punk, noise, lo-fi, weird,     *)
(* Minneapolis give those four genres and the location Minneapolis.        *)
(***************************************************************************)
C18_TagsMergedInOrder ==
    ExtractedBy("extractGenresAndLocation") =>
        LET merged == Distinct(AllFound(markup))
            got == extracted[1].value
            n == Len(merged)
        IN /\ got.location = IF n = 0 THEN <<>> ELSE <<merged[n]>>
           /\ got.genres = SubSeq(merged, 1, IF n - 1 > 4 THEN 4 ELSE n - 1)
           /\ Len(got.genres) <= 4
           /\ \A i, j \in 1..Len(got.genres) : i # j => got.genres[i] # got.genres[j]
           /\ \A i \in 1..Len(got.genres) : <<got.genres[i]>> # got.location
           /\ merged = <<"punk", "noise", "lo-fi", "weird", "Minneapolis">>
                 => /\ got.genres = <<"punk", "noise", "lo-fi", "weird">>
                    /\ got.location = <<"Minneapolis">>

\* C18, reached: a page whose container, blob and tag anchors share a tag:
\* the container's tag comes first and is there once
C18_Witness ==
    /\ markup = <<TagsOpen, AnchorNoisePadded, DivClose, BlobFive>>
    /\ ExtractedBy("extractGenresAndLocation")
    /\ extracted[1].value = [genres |-> <<"noise", "punk", "lo-fi", "weird">>,
                             location |-> <<"Minneapolis">>]

(***************************************************************************)
(* C19.  extractEmbedInfo returns the album identifier, the first in the   *)
(* markup, whenever the markup has an album identifier, whether a track    *)
(* identifier stands before it, after it or nowhere; the first track       *)
(* identifier only when there is no album identifier; null when there is   *)
(* neither.                                                                *)
(***************************************************************************)
C19_AlbumBeforeTrack ==
    ExtractedBy("extractEmbedInfo") =>
        LET albums == {i \in 1..Len(markup) : markup[i] \in AlbumIdTokens}
            tracks == {i \in 1..Len(markup) : markup[i] \in TrackIdTokens}
            First(S) == CHOOSE i \in S : \A j \in S : i <= j
            got == extracted[1].value
        IN IF albums # {}
           THEN got = <<[type |-> "album", id |-> CapturedId(markup[First(albums)])]>>
           ELSE IF tracks # {}
           THEN got = <<[type |-> "track", id |-> CapturedId(markup[First(tracks)])]>>
           ELSE got = <<>>

\* C19, reached: a page with a track identifier before two album
\* identifiers gave the first album
C19_Witness ==
    /\ markup = <<"track=2", "album=3", "album=1">>
    /\ ExtractedBy("extractEmbedInfo")
    /\ extracted[1].value = <<[type |-> "album", id |-> "3"]>>

\* the url has neither "/album/" nor "/track/" in it
NamesNoRelease(url) ==
    \A i \in 1..Len(url) : url[i] # "/album/" /\ url[i] # "/track/"

\* log entry j is the second request made for a url: it comes right after
\* the url's first request, the url names no release, and the address asked
\* for is the release found in the page that had arrived
C20_SecondFetch(j) ==
    /\ j > 1
    /\ log[j - 1].ev = "fetch"
    /\ log[j - 1].run = log[j].run
    /\ NamesNoRelease(log[j - 1].url)
    /\ log[j].page # <<>>
    /\ extractLatestRelease(log[j].page[1], log[j - 1].url) = <<log[j].url>>

\* log entry j ends the fetching of a url: one request was made for it, or
\* two, the second as above
C20_FetchesBefore(j) ==
    /\ j > 1
    /\ \/ log[j - 1].ev = "fetch" /\ log[j - 1].url = log[j].url
       \/ /\ j > 2
          /\ log[j - 1].ev = "refetch"
          /\ log[j - 2].ev = "fetch"
          /\ log[j - 2].url = log[j].url

\* log entry j is a record: it was extracted from the page that arrived
\* last, and when that was the first page of a url that names no release,
\* the page named none either
C20_ExtractedFromLastPage(j) ==
    /\ log[j].page # <<>>
    /\ log[j].rec = <<MetadataOf(log[j].page[1])>>
    /\ (log[j - 1].ev = "fetch" /\ NamesNoRelease(log[j].url))
          => extractLatestRelease(log[j].page[1], log[j].url) = <<>>

(***************************************************************************)
(* C20.  A second page fetch is made only for a url that has neither       *)
(* "/album/" nor "/track/" in it, and only for the release that discovery  *)
(* found in the first page: an album or track url is fetched once on a     *)
(* miss, an artist url once, or twice when its page names a release; the   *)
(* record is extracted from the page that was fetched last.                *)
(***************************************************************************)
C20_SecondFetchOnlyForArtistPage ==
    \A j \in 1..Len(log) :
        /\ log[j].ev = "refetch" => C20_SecondFetch(j)
        /\ log[j].ev \in {"record", "norecord"} => C20_FetchesBefore(j)
        /\ log[j].ev = "record" => C20_ExtractedFromLastPage(j)

\* C20, reached: an artist url was fetched, its page named a release, the
\* release was fetched and the record extracted from the release page; and
\* an album url got its record after one fetch
C20_Witness ==
    \E i, j \in 1..Len(log) :
        /\ i > 2
        /\ log[i].ev = "record"
        /\ log[i].url = ArtistUrl
        /\ log[i].page = <<ReleasePage>>
        /\ log[i - 1].ev = "refetch"
        /\ log[i - 1].url = ReleaseUrl
        /\ log[i - 1].page = <<ArtistPage>>
        /\ log[i - 2].ev = "fetch"
        /\ j > 1
        /\ log[j].ev = "record"
        /\ log[j].url = AlbumUrl
        /\ log[j - 1].ev = "fetch"

\* log entries i and j are about the same reference: the same url of the
\* same show in the same run
SameReference(i, j) ==
    log[i].run = log[j].run /\ log[i].row = log[j].row /\ log[i].ui = log[j].ui

\* a step that takes a failed fetch leaves the cache as it was, with no
\* entry under the key of the url
C21_FailedStep ==
    (Appended /\ Last(log').ev = "norecord")
       => /\ bandcampCache' = bandcampCache
          /\ ToLowerCase(urls[ui]) \notin DOMAIN bandcampCache'.map

\* no reference is fetched twice: a failed fetch is not tried again
C21_ReferenceFetchedOnce ==
    \A j \in 1..Len(log) :
        \A i \in 1..(j - 1) :
            (log[i].ev = "fetch" /\ log[j].ev = "fetch") => ~SameReference(i, j)

\* a reference, in a later run, to a url whose fetch failed is served from
\* the cache when a record was fetched for the url in between, and is
\* fetched otherwise
C21_FetchedAgainUnlessCached ==
    \A j \in 1..Len(log) :
        \A i \in 1..(j - 1) :
            (/\ log[i].ev = "norecord"
             /\ log[j].ev \in Outcomes
             /\ log[i].run < log[j].run
             /\ SameKey(i, j))
            => IF \E k \in (i + 1)..(j - 1) : log[k].ev = "record" /\ SameKey(k, j)
               THEN log[j].ev = "hit"
               ELSE /\ log[j].ev # "hit"
                    /\ log[j - 1].ev \in {"fetch", "refetch"}
                    /\ SameReference(j - 1, j)

(***************************************************************************)
(* C21 (amended).  A failed fetch stores nothing: the cache is unchanged   *)
(* and has no entry under the key of the url.  The reference that failed   *)
(* is not fetched a second time.  In the next run a reference to the url   *)
(* is fetched again, unless a record was fetched for the url after the     *)
(* failure, and then it is a cache hit.                                    *)
(***************************************************************************)
C21_FailedFetchStoresNothing ==
    /\ []C21_ReferenceFetchedOnce
    /\ []C21_FetchedAgainUnlessCached
    /\ [][C21_FailedStep]_vars

\* C21 as stated: the url of a failed fetch is not fetched again in the run.
C21_NotFetchedAgainInRun ==
    \A j \in 1..Len(log) :
        \A i \in 1..(j - 1) :
            (log[i].ev = "norecord" /\ log[i].run = log[j].run /\ SameKey(i, j))
            => log[j].ev # "fetch"

\* C21, reached: the fetch of a url failed in the first run, which ended
\* without the url in the cache file; the second run fetched it again and
\* got a record
C21_Witness ==
    /\ run = 2
    /\ \E i \in EventsOf(1), j \in EventsOf(2) :
          /\ log[i].ev = "norecord"
          /\ log[j].ev = "record"
          /\ log[j - 1].ev = "fetch"
          /\ SameKey(i, j)
          /\ \A k \in EventsOf(1) : SameKey(i, k) => log[k].ev \in {"fetch", "norecord"}

\* every entry of cache a is in cache b with the same record
Grows(a, b) ==
    /\ DOMAIN a.map \subseteq DOMAIN b.map
    /\ \A k \in DOMAIN a.map : b.map[k] = a.map[k]

\* a step of a run keeps every entry of the cache; the cache file changes
\* only when it is saved, and then holds every entry that loading it gave
C22_Step ==
    /\ run' = run => Grows(bandcampCache, bandcampCache')
    /\ cacheFile' # cacheFile =>
          /\ Appended
          /\ Last(log').ev = "write"
          /\ cacheFile'.kind = "object"
          /\ Grows(loadBandcampCache(cacheFile), cacheFile')
          /\ Grows(bandcampCache, cacheFile')

\* from loading to saving, the cache holds every entry of the file
C22_LoadedEntriesKept ==
    pc \in {"loop", "urls", "page", "release"} =>
        Grows(loadBandcampCache(cacheFile), bandcampCache)

(***************************************************************************)
(* C22.  During a run the cache only grows: no step removes a key or       *)
(* replaces the record under a key, and the file saved at the end holds    *)
(* every entry that was loaded at the start, with its record unchanged.    *)
(***************************************************************************)
C22_CacheOnlyGrows == []C22_LoadedEntriesKept /\ [][C22_Step]_vars

\* C22, reached: a run that found a record in the cache file ended with
\* that record still in the file next to a record it fetched
C22_Witness ==
    /\ run = 1
    /\ pc = "done"
    /\ \E i \in 1..Len(log) : log[i].ev = "record"
    /\ \E k1, k2 \in DOMAIN cacheFile.map :
          /\ cacheFile.map[k1] = StaleRecord
          /\ cacheFile.map[k2] # StaleRecord

\* a step in which a page arrived and was extracted from yields a record,
\* whose embedHtml is null when the page has no embed identifier; build
\* pushes the record to the data of the show and stores it under the key
\* of the url
C23_ExtractionStep ==
    (Appended /\ Last(log').ev \in {"record", "norecord"} /\ Last(log').page # <<>>)
       => LET pageHtml == Last(log').page[1]
              data == Last(log').rec
          IN /\ Last(log').ev = "record"
             /\ data # <<>>
             /\ extractEmbedInfo(pageHtml) = <<>> => data[1].embedHtml = <<>>
             /\ bandcampData' = Append(bandcampData, data[1])
             /\ ToLowerCase(urls[ui]) \in DOMAIN bandcampCache'.map
             /\ bandcampCache'.map[ToLowerCase(urls[ui])] = data[1]

\* after a record without embed for a url, every reference to the url, in
\* the same run or a later one, is a cache hit with that record
C23_NotFetchedAgain ==
    \A j \in 1..Len(log) :
        \A i \in 1..(j - 1) :
            (/\ log[i].ev = "record"
             /\ log[i].rec[1].embedHtml = <<>>
             /\ log[j].ev \in Outcomes \cup {"fetch"}
             /\ SameKey(i, j))
            => log[j].ev = "hit" /\ log[j].rec = log[i].rec

(***************************************************************************)
(* C23.  A page that is fetched and has no embed identifier still yields   *)
(* a record, with embedHtml null; build appends the record to the show's   *)
(* data and stores it in the cache, and every later reference to the url,  *)
(* in this run or a following one, is a cache hit: the page is not fetched *)
(* again.                                                                  *)
(***************************************************************************)
C23_RecordWithoutEmbedIsCached == []C23_NotFetchedAgain /\ [][C23_ExtractionStep]_vars

\* C23, reached: a page without an embed identifier gave a record that was
\* reused for the same url later in the run and again in the next run
C23_Witness ==
    \E i, j, k \in 1..Len(log) :
        /\ i < j
        /\ log[i].ev = "record"
        /\ log[i].page = <<PlainPage>>
        /\ log[i].rec[1].embedHtml = <<>>
        /\ log[i].run = 1
        /\ log[j].run = 1
        /\ log[k].run = 2
        /\ log[j].ev = "hit"
        /\ log[k].ev = "hit"
        /\ SameKey(i, j)
        /\ SameKey(i, k)
        /\ log[k].rec = log[i].rec

\* the places of sheet row r in a sequence of shows
PlacesOf(r, out) == {k \in 1..Len(out) : out[k].row = r}

\* while the shows are processed, the shows pushed so far are the filtered
\* rows before the current one, each once and in order
C24_PushedSoFar ==
    pc \in {"loop", "urls", "page", "release"} =>
        /\ Len(shows) = si - 1
        /\ \A k \in 1..Len(shows) : shows[k].row = showsRaw[k].row

(***************************************************************************)
(* C24.  Every row of the sheet that has a date, a venue and a title is    *)
(* in the shows of every document written exactly once, with its date and  *)
(* title, and nothing else is: whatever its urls came to (a cache hit, a   *)
(* record fetched, a failed fetch, no valid url), processing them neither  *)
(* drops nor duplicates a show.                                            *)
(***************************************************************************)
C24_EveryCompleteRowOnce ==
    /\ C24_PushedSoFar
    /\ \A r \in 1..MaxRuns :
          outputOf[r] # <<>> =>
              LET out == outputOf[r][1].shows
              IN /\ \A row \in CompleteRows : Cardinality(PlacesOf(row, out)) = 1
                 /\ \A k \in 1..Len(out) :
                       /\ out[k].row \in CompleteRows
                       /\ out[k].date = showsData[out[k].row].date
                       /\ out[k].title = showsData[out[k].row].title

\* C24, reached: a document with two shows, one whose only url failed and
\* one whose field has an entry but no Bandcamp url
C24_Witness ==
    /\ pc = "done"
    /\ Len(outputFile[1].shows) = 2
    /\ \E i \in EventsOf(run) :
          /\ log[i].ev = "norecord"
          /\ OutcomesFrom(run, log[i].row, 1) = <<log[i]>>
    /\ \E row \in CompleteRows :
          /\ inputEntries[row] # <<>>
          /\ ValidUrlsOf(inputEntries[row]) = <<>>

====
